---- MODULE Spec2Model ----
(***************************************************************************)
(* OpenSeer (src/openseer.py): a Streamlit form that, on submission,       *)
(* fetches the last num_sales sale events with one HTTP GET (query_api),   *)
(* flattens them into a two-column table (parse_data), counts the rows per *)
(* collection (plot_data) and displays a chart and a top-collections       *)
(* table (main).                                                           *)
(*                                                                         *)
(* The hosting UI runs the script once per page load or submission; the    *)
(* variables below are the locals of one execution of main() together with *)
(* what that execution printed and put on the screen.                      *)
(***************************************************************************)
EXTENDS Integers, Sequences, FiniteSets, TLC

VARIABLES
    pc,                 \* position of the current script run inside main()
    num_sales,          \* main: value of the number input
    submitted,          \* main: value of the form's submit button
    response,           \* what requests.get(...).json() did in this run
    sales_data_json,    \* main: local assigned at line 181
    sales_data_frame,   \* main: local assigned at line 184
    counts,             \* main: local assigned at line 189
    screen,             \* elements emitted at lines 191-200
    printed,            \* text written by print() in this run
    gets,               \* number of HTTP GETs issued in this run
    trace,              \* pipeline functions called in this run, in call order
    prev                \* how the previous script run ended

vars == <<pc, num_sales, submitted, response, sales_data_json, sales_data_frame,
          counts, screen, printed, gets, trace, prev>>

----------------------------------------------------------------------------
(* Bounds of the model                                                     *)

MaxEvents == 2
MaxN == 4
MaxRows == 4

(* Program constants                                                       *)

MinSales == 1
MaxSales == 300
TopCount == 3

Min(a, b) == IF a < b THEN a ELSE b

NumSalesRange == MinSales .. Min(MaxN, MaxSales)

----------------------------------------------------------------------------
(* JSON values as the pipeline sees them.  A value is tagged with its kind; *)
(* Python None (JSON null) is the kind "null".                             *)

None == "None"
Names == {"A", "B"}
AggNames == {"A", "B", "C", "D"}
Dates == {"d1", "d2"}

\* An element of the "asset_events" sequence, with the path
\* asset -> collection -> name and the key created_date spelled out.
Entry(kind, hasA, aKind, hasC, cKind, hasN, name, hasD, date) ==
    [kind |-> kind, hasAsset |-> hasA, assetKind |-> aKind,
     hasCollection |-> hasC, collectionKind |-> cKind,
     hasName |-> hasN, name |-> name, hasDate |-> hasD, date |-> date]

GoodEntry(n, d) == Entry("object", TRUE, "object", TRUE, "object", TRUE, n, TRUE, d)

GoodEntries == {GoodEntry(n, d) : n \in Names \cup {None}, d \in Dates}

\* What iterating a JSON object or a JSON string yields: str values.
StrEntry == Entry("string", FALSE, "null", FALSE, "null", FALSE, None, FALSE, "d1")

BadEntries ==
    { StrEntry,
      Entry("null", FALSE, "null", FALSE, "null", FALSE, None, FALSE, "d1"),
      Entry("object", FALSE, "null", FALSE, "null", FALSE, None, TRUE, "d1"),
      Entry("object", TRUE, "string", FALSE, "null", FALSE, None, TRUE, "d1"),
      Entry("object", TRUE, "object", FALSE, "null", FALSE, None, TRUE, "d1"),
      Entry("object", TRUE, "object", TRUE, "array", FALSE, None, TRUE, "d1"),
      Entry("object", TRUE, "object", TRUE, "object", FALSE, None, TRUE, "d1"),
      Entry("object", TRUE, "object", TRUE, "object", TRUE, "A", FALSE, "d1") }

Entries == GoodEntries \cup BadEntries

SeqsUpTo(S, n) == UNION {[1..k -> S] : k \in 0..n}

\* The value under "asset_events".  For an object or a string, items are
\* the keys or characters that iteration yields.
Events(kind, items) == [kind |-> kind, items |-> items]

NoEvents == Events("null", <<>>)

EventsValues ==
    {Events("array", s) : s \in SeqsUpTo(Entries, MaxEvents)}
    \cup {Events(k, s) : k \in {"object", "string"}, s \in SeqsUpTo({StrEntry}, 1)}
    \cup {Events("number", <<>>), NoEvents}

\* The decoded response body.
Raw(kind, hasEvents, events) == [kind |-> kind, hasEvents |-> hasEvents, events |-> events]

RawNone == Raw("null", FALSE, NoEvents)

RawValues ==
    {Raw("object", TRUE, e) : e \in EventsValues}
    \cup {Raw("object", FALSE, NoEvents), Raw("array", FALSE, NoEvents),
          Raw("string", FALSE, NoEvents), RawNone}

\* Outcomes of requests.get(url, params).json(): the call raises when the
\* transport fails or the body is not JSON, and returns the decoded body
\* otherwise (None for the body "null").
Transports == {"network_failure", "empty_body", "malformed_body", "json"}

Response(transport, value) == [transport |-> transport, value |-> value]

NoResponse == Response("none", RawNone)

Responses ==
    {Response(t, RawNone) : t \in Transports \ {"json"}}
    \cup {Response("json", v) : v \in RawValues}

----------------------------------------------------------------------------
(* query_api                                                               *)

FetchMessage ==
    "Unable to get data. Try lowering the number of sales requested or waiting a few minutes."

ParseMessage ==
    "Unable to parse the data. Try lowering the number of sales requested or waiting a few minutes."

\* The result of a call: it returns a value, leaves through sys.exit()
\* after printing, or lets an exception escape.
Result(outcome, out, value) == [outcome |-> outcome, printed |-> out, value |-> value]

\* Lines 35-52.  requests.get(...).json() is evaluated first; when it
\* raises, nothing below line 40 runs.
query_api(n, r) ==
    IF r.transport # "json"
    THEN Result("raise", <<>>, RawNone)
    ELSE IF r.value.kind = "null"
         THEN Result("exit", <<FetchMessage>>, RawNone)
         ELSE Result("return", <<>>, r.value)

----------------------------------------------------------------------------
(* parse_data                                                              *)

\* sales_data['asset_events'] evaluates without raising.
EventsLookupOk(sales_data) == sales_data.kind = "object" /\ sales_data.hasEvents

\* for item in ...: the value can be iterated.
Iterable(events) == events.kind \in {"array", "object", "string"}

\* item['asset']['collection']['name'] evaluates without raising.
NameLookupOk(item) ==
    /\ item.kind = "object" /\ item.hasAsset
    /\ item.assetKind = "object" /\ item.hasCollection
    /\ item.collectionKind = "object" /\ item.hasName

\* item["created_date"] evaluates without raising.
DateLookupOk(item) == item.kind = "object" /\ item.hasDate

Loop(raised, names, dates) == [raised |-> raised, names |-> names, dates |-> dates]

\* Lines 98-100: the two appends per item, in the order of the code; an
\* exception leaves the loop with the lists as they are.
RECURSIVE ParseLoop(_, _, _, _)
ParseLoop(items, i, names, dates) ==
    IF i > Len(items) THEN Loop(FALSE, names, dates)
    ELSE IF ~NameLookupOk(items[i]) THEN Loop(TRUE, names, dates)
    ELSE IF ~DateLookupOk(items[i])
         THEN Loop(TRUE, Append(names, items[i].name), dates)
         ELSE ParseLoop(items, i + 1, Append(names, items[i].name),
                        Append(dates, items[i].date))

\* Lines 97-100, the body of the try statement.
ParseTry(sales_data) ==
    IF ~EventsLookupOk(sales_data) \/ ~Iterable(sales_data.events)
    THEN Loop(TRUE, <<>>, <<>>)
    ELSE ParseLoop(sales_data.events.items, 1, <<>>, <<>>)

Frame(rows) == [set |-> TRUE, rows |-> rows]

NoFrame == [set |-> FALSE, rows |-> <<>>]

Row(date, name) == [transaction_date |-> date, NFT_Group_Name |-> name]

\* The two columns exchanged.
DataFrameSwapped(dates, names) ==
    Frame([i \in 1..Len(names) |-> Row(names[i], dates[i])])

\* Lines 111-114: pd.DataFrame of the two lists, one row per position.
DataFrame(dates, names) ==
    Frame([i \in 1..Len(dates) |-> Row(dates[i], names[i])])

\* A parser that keeps the rows read before the exception.
parse_data_partial(sales_data) ==
    LET t == ParseTry(sales_data)
        n == Min(Len(t.names), Len(t.dates))
    IN  Result("return", <<>>, DataFrame(SubSeq(t.dates, 1, n), SubSeq(t.names, 1, n)))

\* Lines 90-116.
parse_data(sales_data) ==
    LET t == ParseTry(sales_data)
    IN  IF t.raised
        THEN Result("exit", <<ParseMessage>>, NoFrame)
        ELSE Result("return", <<>>, DataFrame(t.dates, t.names))

----------------------------------------------------------------------------
(* plot_data                                                               *)

Range(seq) == {seq[i] : i \in 1..Len(seq)}

\* The column sales_data['NFT_Group_Name'].
Column(frame) == [i \in 1..Len(frame.rows) |-> frame.rows[i].NFT_Group_Name]

\* Number of rows of the column holding the value k.
Occurrences(col, k) == Cardinality({i \in 1..Len(col) : col[i] = k})

\* Position of the first row holding the value k.
FirstRow(col, k) == CHOOSE i \in 1..Len(col) : col[i] = k /\ \A j \in 1..(i - 1) : col[j] # k

\* value_counts() counts the values that are not missing (dropna=True).
Keys(col) == Range(col) \ {None}

CountRow(name, n) == [name |-> name, count |-> n]

\* The key of a set that appears first in the column.
FirstSeen(col, keys) ==
    CHOOSE x \in keys : \A o \in keys : FirstRow(col, x) <= FirstRow(col, o)

\* The key of a set that appears last in the column.
LastSeen(col, keys) ==
    CHOOSE x \in keys : \A o \in keys : FirstRow(col, o) <= FirstRow(col, x)

\* The keys with the largest count, and those with the smallest.
MostFrequent(col, keys) ==
    {k \in keys : \A o \in keys : Occurrences(col, o) <= Occurrences(col, k)}

LeastFrequent(col, keys) ==
    {k \in keys : \A o \in keys : Occurrences(col, k) <= Occurrences(col, o)}

\* value_counts() takes the keys in order of first appearance and sorts
\* them by descending count; keys with equal counts stay in that order.
RECURSIVE SortedDescending(_, _)
SortedDescending(col, keys) ==
    IF keys = {} THEN <<>>
    ELSE LET k == FirstSeen(col, MostFrequent(col, keys))
         IN  <<CountRow(k, Occurrences(col, k))>> \o SortedDescending(col, keys \ {k})

\* The keys sorted by ascending count.
RECURSIVE SortedAscending(_, _)
SortedAscending(col, keys) ==
    IF keys = {} THEN <<>>
    ELSE LET k == FirstSeen(col, LeastFrequent(col, keys))
         IN  <<CountRow(k, Occurrences(col, k))>> \o SortedAscending(col, keys \ {k})

\* The keys sorted by descending count with equal counts in reverse order
\* of first appearance (an ascending sort, reversed).
RECURSIVE SortedReversed(_, _)
SortedReversed(col, keys) ==
    IF keys = {} THEN <<>>
    ELSE LET k == LastSeen(col, MostFrequent(col, keys))
         IN  <<CountRow(k, Occurrences(col, k))>> \o SortedReversed(col, keys \ {k})

value_counts_ascending(col) == SortedAscending(col, Keys(col))

value_counts_reversed(col) == SortedReversed(col, Keys(col))

\* Line 139: Series.value_counts().
value_counts(col) == SortedDescending(col, Keys(col))

\* Line 150: Series.plot.bar(ax=ax) places the axis limits at the first and
\* the last bar, so it raises IndexError when there is no bar.
PlotBarOk(rows) == Len(rows) > 0

\* Lines 139-165.
plot_data(frame) ==
    LET c == value_counts(Column(frame))
    IN  IF PlotBarOk(c) THEN Result("return", <<>>, Frame(c)) ELSE Result("raise", <<>>, NoFrame)

----------------------------------------------------------------------------
(* main                                                                    *)

\* The number of rows shown is always TopCount.
top_selling_fixed(n) == TopCount

\* Lines 194-197.
top_selling(n) == IF n < TopCount THEN n ELSE TopCount

\* counts.iloc[0:k]: the rows at positions 0 .. k-1 that exist.
iloc(rows, k) == SubSeq(rows, 1, Min(k, Len(rows)))

Screen(shown, header, chart, subheader, table) ==
    [shown |-> shown, header |-> header, chart |-> chart, subheader |-> subheader,
     table |-> table]

NoScreen == Screen(FALSE, 0, <<>>, 0, <<>>)

\* Lines 191-200: what a run puts on the screen.
display(n, c) == Screen(TRUE, n, c.rows, top_selling(n), iloc(c.rows, top_selling(n)))

\* The pipeline runs whether or not the form was submitted.
form_branch_always(s) == "query"

\* Line 180: if submitted.
form_branch(s) == IF s THEN "query" ELSE "returned"

\* main has no try statement: a sys.exit() or an exception inside a call
\* ends main; a returned value lets it go on to the next line.
after_call(outcome, next) ==
    CASE outcome = "return" -> next
      [] outcome = "exit" -> "exited"
      [] outcome = "raise" -> "raised"

Ended == {"idle", "returned", "exited", "raised"}

Init ==
    /\ pc = "idle"
    /\ num_sales = MinSales
    /\ submitted = FALSE
    /\ response = NoResponse
    /\ sales_data_json = RawNone
    /\ sales_data_frame = NoFrame
    /\ counts = NoFrame
    /\ screen = NoScreen
    /\ printed = <<>>
    /\ gets = 0
    /\ trace = <<>>
    /\ prev = "none"

\* The hosting UI executes the script: a page load (s = FALSE) or a
\* submission of the form (s = TRUE) with the number n in the input
\* (lines 175-177, 206-207).  The locals of main are fresh.
ScriptRun(n, s) ==
    /\ pc \in Ended
    /\ pc' = "form"
    /\ num_sales' = n
    /\ submitted' = s
    /\ response' = NoResponse
    /\ sales_data_json' = RawNone
    /\ sales_data_frame' = NoFrame
    /\ counts' = NoFrame
    /\ screen' = NoScreen
    /\ printed' = <<>>
    /\ gets' = 0
    /\ trace' = <<>>
    /\ prev' = pc

\* Line 180.
MainForm ==
    /\ pc = "form"
    /\ pc' = form_branch(submitted)
    /\ UNCHANGED <<num_sales, submitted, response, sales_data_json, sales_data_frame,
                   counts, screen, printed, gets, trace, prev>>

\* Line 181.
MainQueryApi(r) ==
    /\ pc = "query"
    /\ LET q == query_api(num_sales, r)
       IN  /\ pc' = after_call(q.outcome, "parse")
           /\ printed' = printed \o q.printed
           /\ sales_data_json' = IF q.outcome = "return" THEN q.value ELSE sales_data_json
    /\ response' = r
    /\ gets' = gets + 1
    /\ trace' = Append(trace, "query_api")
    /\ UNCHANGED <<num_sales, submitted, sales_data_frame, counts, screen, prev>>

\* Line 184.
MainParseData ==
    /\ pc = "parse"
    /\ LET p == parse_data(sales_data_json)
       IN  /\ pc' = after_call(p.outcome, "plot")
           /\ printed' = printed \o p.printed
           /\ sales_data_frame' = IF p.outcome = "return" THEN p.value ELSE sales_data_frame
    /\ trace' = Append(trace, "parse_data")
    /\ UNCHANGED <<num_sales, submitted, response, sales_data_json, counts, screen,
                   gets, prev>>

\* Line 189.
MainPlotData ==
    /\ pc = "plot"
    /\ LET c == plot_data(sales_data_frame)
       IN  /\ pc' = after_call(c.outcome, "display")
           /\ counts' = IF c.outcome = "return" THEN c.value ELSE counts
    /\ trace' = Append(trace, "plot_data")
    /\ UNCHANGED <<num_sales, submitted, response, sales_data_json, sales_data_frame,
                   screen, printed, gets, prev>>

\* Lines 191-203.
MainDisplay ==
    /\ pc = "display"
    /\ screen' = display(num_sales, counts)
    /\ pc' = "returned"
    /\ UNCHANGED <<num_sales, submitted, response, sales_data_json, sales_data_frame,
                   counts, printed, gets, trace, prev>>

Next ==
    \/ \E n \in NumSalesRange, s \in BOOLEAN : ScriptRun(n, s)
    \/ MainForm
    \/ \E r \in Responses : MainQueryApi(r)
    \/ MainParseData
    \/ MainPlotData
    \/ MainDisplay

Spec == Init /\ [][Next]_vars

----------------------------------------------------------------------------
(* The same program on responses that hold up to MaxRows well-formed       *)
(* events of the collections AggNames: the runs in which the aggregation   *)
(* sees larger tables.                                                     *)

AggResponses ==
    {Response("json", Raw("object", TRUE,
                          Events("array", [i \in 1..Len(s) |-> GoodEntry(s[i], "d1")]))) :
        s \in SeqsUpTo(AggNames \cup {None}, MaxRows)}

AggNext ==
    \/ \E n \in NumSalesRange, s \in BOOLEAN : ScriptRun(n, s)
    \/ MainForm
    \/ \E r \in AggResponses : MainQueryApi(r)
    \/ MainParseData
    \/ MainPlotData
    \/ MainDisplay

AggSpec == Init /\ [][AggNext]_vars

----------------------------------------------------------------------------
(* Properties                                                              *)

Pipeline == <<"query_api", "parse_data", "plot_data">>

QueryCalled == Len(trace) >= 1
ParseCalled == Len(trace) >= 2
PlotCalled == Len(trace) >= 3

\* query_api returned a value to main.
QueryReturned == QueryCalled /\ ~(Len(trace) = 1 /\ pc \in {"exited", "raised"})

\* An entry lacks created_date or a step of asset -> collection -> name.
EntryMalformed(e) ==
    \/ e.kind # "object"
    \/ ~e.hasAsset \/ e.assetKind # "object"
    \/ ~e.hasCollection \/ e.collectionKind # "object"
    \/ ~e.hasName
    \/ ~e.hasDate

SomeEntryMalformed(raw) ==
    \E i \in 1..Len(raw.events.items) : EntryMalformed(raw.events.items[i])

\* The run ended in parse_data: message printed, run halted, no table.
ParseErrorOutcome ==
    /\ pc = "exited"
    /\ trace = <<"query_api", "parse_data">>
    /\ printed = <<ParseMessage>>
    /\ sales_data_frame = NoFrame
    /\ counts = NoFrame
    /\ screen = NoScreen

\* The run ended in query_api: message printed, run halted, nothing else ran.
FetchErrorOutcome ==
    /\ pc = "exited"
    /\ trace = <<"query_api">>
    /\ printed = <<FetchMessage>>
    /\ gets = 1
    /\ sales_data_frame = NoFrame
    /\ counts = NoFrame
    /\ screen = NoScreen

\* C1 as stated: whenever the expected structure is absent at any level
\* (the value is no object, has no 'asset_events', 'asset_events' is not a
\* list, or some entry is malformed), the parse ends in the parse-error
\* outcome and no table exists.
C1_AnyWrongShapeFails ==
    (ParseCalled /\ ( \/ sales_data_json.kind # "object"
                      \/ ~sales_data_json.hasEvents
                      \/ sales_data_json.events.kind # "array"
                      \/ SomeEntryMalformed(sales_data_json) ))
        => ParseErrorOutcome

\* C1 as amended: the parse ends in the parse-error outcome, with no table,
\* whenever the value is no object, has no 'asset_events', 'asset_events'
\* cannot be iterated (a number, null), or some element its iteration yields
\* is malformed, at any position; an 'asset_events' that is an empty object
\* or an empty string is taken as zero entries and gives a zero-row table.
C1_AllOrNothing ==
    /\ (ParseCalled /\ ( \/ sales_data_json.kind # "object"
                         \/ ~sales_data_json.hasEvents
                         \/ sales_data_json.events.kind \in {"number", "null"}
                         \/ SomeEntryMalformed(sales_data_json) ))
           => ParseErrorOutcome
    /\ (ParseCalled /\ sales_data_json.kind = "object" /\ sales_data_json.hasEvents
            /\ sales_data_json.events.kind \in {"object", "string"}
            /\ sales_data_json.events.items = <<>>)
           => sales_data_frame = Frame(<<>>)

\* A parse that failed on its last entry after reading a well-formed one.
C1_Witness ==
    /\ ParseErrorOutcome
    /\ sales_data_json.events.kind = "array"
    /\ Len(sales_data_json.events.items) >= 2
    /\ ~EntryMalformed(sales_data_json.events.items[1])
    /\ EntryMalformed(sales_data_json.events.items[Len(sales_data_json.events.items)])

\* C2: every way the response can fail to decode into a structured value
\* (network failure, empty body, malformed payload, decoded null) ends the
\* run in the fetch-error outcome: the message is printed, the run halts,
\* parse_data and plot_data are not executed and one request was issued.
C2_EveryDecodeFailureIsFetchError ==
    (QueryCalled /\ ( \/ response.transport \in {"network_failure", "empty_body",
                                                  "malformed_body"}
                      \/ (response.transport = "json" /\ response.value.kind = "null") ))
        => FetchErrorOutcome

NoMissingName(col) == \A i \in 1..Len(col) : col[i] # None

RECURSIVE SumCounts(_)
SumCounts(rows) == IF rows = <<>> THEN 0 ELSE rows[1].count + SumCounts(Tail(rows))

\* The ranked sequence c has exactly one entry per distinct value of the
\* column, each count is the number of rows with that value (so at least 1,
\* and the counts sum to the number of rows), and the counts are
\* non-increasing.
RankedCountsOf(col, c) ==
    /\ \A k \in Range(col) : Cardinality({i \in 1..Len(c) : c[i].name = k}) = 1
    /\ \A i \in 1..Len(c) :
           /\ c[i].name \in Range(col)
           /\ c[i].count = Cardinality({j \in 1..Len(col) : col[j] = c[i].name})
           /\ c[i].count >= 1
    /\ SumCounts(c) = Len(col)
    /\ \A i \in 1..(Len(c) - 1) : c[i].count >= c[i + 1].count

\* C3 as stated: for every table, the result of plot_data has exactly one
\* entry per distinct NFT_Group_Name, each count is the number of rows with
\* that name, the counts sum to the number of rows and are non-increasing.
C3_AggregationOfEveryTable ==
    counts.set => RankedCountsOf(Column(sales_data_frame), counts.rows)

\* C3 as amended: the same, for every table in which every NFT_Group_Name
\* is a string; rows whose name is null are left out of the counts.
C3_Aggregation ==
    (counts.set /\ NoMissingName(Column(sales_data_frame)))
        => RankedCountsOf(Column(sales_data_frame), counts.rows)

\* Three collections ranked with distinct first and last counts.
C3_Witness ==
    /\ counts.set
    /\ NoMissingName(Column(sales_data_frame))
    /\ Len(counts.rows) = 3
    /\ counts.rows[1].count > counts.rows[3].count

C5_TopK ==
    screen.shown =>
        LET k == Min(TopCount, num_sales)
        IN  /\ screen.subheader = k
            /\ Len(screen.table) = Min(k, Len(counts.rows))
            /\ \A i \in 1..Len(screen.table) : screen.table[i] = counts.rows[i]
            /\ screen.chart = counts.rows

\* num_sales = 2 and four collections: the top two rows are shown.
C5_Witness ==
    /\ screen.shown
    /\ num_sales = 2
    /\ Len(counts.rows) = 4
    /\ Len(screen.table) = 2

\* C6: a successful parse gives a table of exactly the columns
\* transaction_date and NFT_Group_Name with one row per entry of
\* 'asset_events', in order: row i holds the created_date and the
\* asset.collection.name of entry i.
C6_OneRowPerEvent ==
    sales_data_frame.set =>
        LET items == sales_data_json.events.items
            rows == sales_data_frame.rows
        IN  /\ Len(rows) = Len(items)
            /\ \A i \in 1..Len(rows) :
                   /\ DOMAIN rows[i] = {"transaction_date", "NFT_Group_Name"}
                   /\ rows[i].transaction_date = items[i].date
                   /\ rows[i].NFT_Group_Name = items[i].name

\* A table of two rows that differ in both columns.
C6_Witness ==
    /\ sales_data_frame.set
    /\ Len(sales_data_frame.rows) = 2
    /\ sales_data_frame.rows[1].transaction_date # sales_data_frame.rows[2].transaction_date
    /\ sales_data_frame.rows[1].NFT_Group_Name # sales_data_frame.rows[2].NFT_Group_Name

\* C7: a run that failed in the fetch or in the parse has produced a
\* message, and the hosting UI can execute the script again.
C7_FailedRunReported ==
    (pc \in {"exited", "raised"} /\ Len(trace) <= 2)
        => (printed # <<>> /\ ENABLED ScriptRun(num_sales, TRUE))

\* C8: whenever query_api returns, the value holds an 'asset_events' list
\* of at most num_sales entries, so no table has more than num_sales rows.
C8_AtMostNEvents ==
    /\ QueryReturned =>
           /\ sales_data_json.kind = "object" /\ sales_data_json.hasEvents
           /\ sales_data_json.events.kind = "array"
           /\ Len(sales_data_json.events.items) <= num_sales
    /\ sales_data_frame.set => Len(sales_data_frame.rows) <= num_sales

IsPrefix(s, t) == Len(s) <= Len(t) /\ \A i \in 1..Len(s) : s[i] = t[i]

\* C9: a run calls query_api, parse_data, plot_data in this order, each
\* once and only after the one before it returned, with one HTTP GET;
\* nothing runs without a submission; the header, chart and table are shown
\* only after all three returned, and hold this run's num_sales and the
\* counts of this run's response.
C9_LinearPipeline ==
    /\ IsPrefix(trace, Pipeline)
    /\ gets = (IF QueryCalled THEN 1 ELSE 0)
    /\ ~submitted => (trace = <<>> /\ screen = NoScreen /\ printed = <<>>)
    /\ pc \in {"idle", "form", "query"} => trace = <<>>
    /\ pc = "parse" => trace = <<"query_api">>
    /\ pc = "plot" => trace = <<"query_api", "parse_data">>
    /\ pc = "display" => trace = Pipeline
    /\ ParseCalled => (response.transport = "json" /\ response.value.kind # "null")
    /\ PlotCalled => sales_data_frame.set
    /\ pc \in {"exited", "raised"} => ~screen.shown
    /\ screen.shown =>
           /\ pc = "returned" /\ trace = Pipeline
           /\ sales_data_frame.set /\ counts.set
           /\ screen.header = num_sales
           /\ \A i \in 1..Len(screen.chart) :
                  screen.chart[i].count =
                      Cardinality({j \in 1..Len(response.value.events.items) :
                                       response.value.events.items[j].name
                                           = screen.chart[i].name})

\* A submission after a failed run, displayed in full.
C9_Witness ==
    /\ screen.shown
    /\ prev \in {"exited", "raised"}
    /\ Len(screen.chart) = 2

\* C10: with an empty 'asset_events' list, parse_data gives a zero-row
\* table, plot_data returns an empty ranked sequence without raising, and
\* the run completes with an empty chart and an empty top-collections table.
C10_EmptyInputCompletes ==
    (PlotCalled /\ sales_data_json.events.kind = "array"
         /\ sales_data_json.events.items = <<>>)
        => /\ sales_data_frame = Frame(<<>>)
           /\ counts = Frame(<<>>)
           /\ pc \in {"display", "returned"}
           /\ pc = "returned" => (screen.shown /\ screen.chart = <<>> /\ screen.table = <<>>)

====
